---- MODULE Spec2Model ----
(***************************************************************************)
(* Model of cr3dump.c: a loadable module whose init function walks the     *)
(* host's process list and logs, for every process with a memory           *)
(* descriptor, its pid, its comm and the physical address of its pgd; its  *)
(* exit function logs one line.                                            *)
(***************************************************************************)
EXTENDS Integers, Sequences, FiniteSets, TLC

(* ---------------------------------------------------------------- bounds *)

\* Largest number of processes on the host's list (besides init_task).
MaxTasks == 2

\* Number of load/unload cycles explored.
MaxCycles == 2

\* Number of changes the host makes to its process table while the module
\* is around.
MaxHostSteps == 2

(* ---------------------------------------------------- host-owned entities *)

\* The absent descriptor reference.
NULL == "NULL"

\* The list head of for_each_process; it is never visited.
init_task == 0

\* task->pid of the processes the host may run.
Pids == 1 .. MaxTasks

\* The memory descriptors (struct mm_struct) the host may allocate.
Descs == {"D1", "D2"}

\* Kernel virtual addresses a pgd may live at, and physical addresses.
Virt == {36864, 40960}
Phys == {4096, 8192}

\* task->comm, recorded by the host with the process.
Comms == {"init", "worker"}
CommOf(p) == IF p = 1 THEN "init" ELSE "worker"

\* A process handle (struct task_struct), as far as this module reads it.
TaskStruct == [pid : Pids, comm : Comms, mm : Descs \cup {NULL},
               active_mm : Descs \cup {NULL}]

VARIABLES
    tasks,        \* the host's process list, in traversal order
    mms,          \* the descriptors that are allocated
    pgd,          \* mm->pgd of every descriptor
    translation,  \* the host's direct mapping, virtual -> physical
    log,          \* the kernel log, as the sequence of lines printed
    pc,           \* the module's position
    task,         \* cr3_dump_init's cursor: the pid of the task visited
    mm,           \* the loop body's local mm
    cr3,          \* the loop body's local cr3
    ret,          \* what cr3_dump_init returned: <<>> before it returns
    cycle,        \* number of activations started
    visited,      \* pids the loop body was entered for, this pass
    calls,        \* virt_to_phys invocations of this pass
    snapshot,     \* the process list as it was when this pass began
    freed_tasks,  \* pids of the task structs the host has destroyed
    freed_mms,    \* the descriptors the host has destroyed
    host_steps,   \* number of changes the host has made
    uaf           \* a destroyed task struct or descriptor was read

\* What the host owns, and the record of what it did.
hostvars == <<tasks, mms, pgd, translation, freed_tasks, freed_mms,
              host_steps>>

\* What cr3_dump_init and cr3_dump_exit own, and the record of what they did.
modvars == <<log, pc, task, mm, cr3, ret, cycle, visited, calls, snapshot,
             uaf>>

vars == <<tasks, mms, pgd, translation, log, pc, task, mm, cr3, ret, cycle,
          visited, calls, snapshot, freed_tasks, freed_mms,
          host_steps, uaf>>

\* A local that holds no value (before its initialisation, after its scope).
NONE == "NONE"

Injective(f) == \A a, b \in DOMAIN f : f[a] = f[b] => a = b

Range(s) == {s[i] : i \in DOMAIN s}

\* Sequences over S of length at most n.
SeqUpTo(S, n) == UNION {[1 .. k -> S] : k \in 0 .. n}

\* The descriptors some process on the list refers to.
Referenced(ts) == {ts[i].mm : i \in DOMAIN ts} \cup
                  {ts[i].active_mm : i \in DOMAIN ts}

\* A process with a primary or a fallback descriptor.
Eligible(t) == t.mm # NULL \/ t.active_mm # NULL

\* A process table of the host: pids are unique, each process has the name
\* the host recorded for it.
ProcessTables ==
    {ts \in SeqUpTo(TaskStruct, MaxTasks) :
        /\ \A i, j \in DOMAIN ts : ts[i].pid = ts[j].pid => i = j
        /\ \A i \in DOMAIN ts : ts[i].comm = CommOf(ts[i].pid)}

(* ------------------------------------------------------------ log lines *)

LoadedBanner == [kind |-> "loaded", pid |-> 0, comm |-> "", cr3 |-> 0]
UnloadedBanner == [kind |-> "unloaded", pid |-> 0, comm |-> "", cr3 |-> 0]

\* "PID: %d | Comm: %s | CR3 (PGD phys): 0x%lx\n"
ReportLine(p, c, a) == [kind |-> "report", pid |-> p, comm |-> c, cr3 |-> a]

(* ----------------------------------------------------------------- Init *)

Init ==
    /\ tasks \in ProcessTables
    /\ mms = Referenced(tasks) \ {NULL}
    /\ pgd = [d \in Descs |-> IF d = "D1" THEN 36864 ELSE 40960]
    /\ translation \in {f \in [Virt -> Phys] : Injective(f)}
    /\ log = <<>>
    /\ pc = "unloaded"
    /\ task = init_task
    /\ mm = NONE
    /\ cr3 = NONE
    /\ ret = <<>>
    /\ cycle = 0
    /\ visited = <<>>
    /\ calls = <<>>
    /\ snapshot = <<>>
    /\ freed_tasks = {}
    /\ freed_mms = {}
    /\ host_steps = 0
    /\ uaf = FALSE

(* -------------------------------------------------- reading host memory *)

\* Index of the task struct with pid p on the list, 0 when it is not there.
IndexOf(p) == IF \E i \in DOMAIN tasks : tasks[i].pid = p
              THEN CHOOSE i \in DOMAIN tasks : tasks[i].pid = p
              ELSE 0

OnList(p) == p = init_task \/ IndexOf(p) # 0

\* next_task that steps over the first process of the list.
next_task_skip_first(p) ==
    IF p = init_task
    THEN {IF Len(tasks) < 2 THEN init_task ELSE tasks[2].pid}
    ELSE {IF IndexOf(p) = Len(tasks) THEN init_task
          ELSE tasks[IndexOf(p) + 1].pid}

\* next_task that follows the list backwards (prev instead of next).
next_task_reverse(p) ==
    IF p = init_task
    THEN {IF tasks = <<>> THEN init_task ELSE tasks[Len(tasks)].pid}
    ELSE {IF IndexOf(p) = 1 THEN init_task
          ELSE tasks[IndexOf(p) - 1].pid}

\* next_task(p): the list is circular through init_task.  The successor
\* read from a task struct the host has destroyed is whatever the memory
\* holds by then.
next_task(p) ==
    IF p = init_task
    THEN {IF tasks = <<>> THEN init_task ELSE tasks[1].pid}
    ELSE IF IndexOf(p) # 0
    THEN {IF IndexOf(p) = Len(tasks) THEN init_task
          ELSE tasks[IndexOf(p) + 1].pid}
    ELSE {init_task} \cup {tasks[i].pid : i \in DOMAIN tasks}

\* The values a read of task->mm, task->active_mm, task->pid, task->comm
\* can give.
read_task_mm(p) == IF IndexOf(p) # 0 THEN {tasks[IndexOf(p)].mm}
                   ELSE Descs \cup {NULL}
read_task_active_mm(p) == IF IndexOf(p) # 0 THEN {tasks[IndexOf(p)].active_mm}
                          ELSE Descs \cup {NULL}
read_task_pid(p) == IF IndexOf(p) # 0 THEN {tasks[IndexOf(p)].pid} ELSE Pids
read_task_comm(p) == IF IndexOf(p) # 0 THEN {tasks[IndexOf(p)].comm} ELSE Comms

\* The values a read of m->pgd can give.
read_pgd(m) == IF m \in mms THEN {pgd[m]} ELSE Virt

\* virt_to_phys(v)
virt_to_phys(v) == translation[v]

(* ------------------------------------------------------- cr3_dump_init *)

\* cr3_dump_init that prints no banner.
printk_loaded_silent ==
    /\ pc = "unloaded"
    /\ cycle < MaxCycles
    /\ cycle' = cycle + 1
    /\ task' = init_task
    /\ mm' = NONE
    /\ cr3' = NONE
    /\ ret' = <<>>
    /\ visited' = <<>>
    /\ calls' = <<>>
    /\ snapshot' = tasks
    /\ pc' = "for"
    /\ UNCHANGED <<hostvars, log, uaf>>

\* Lines 16-20: the module is loaded; the banner is printed.
printk_loaded ==
    /\ pc = "unloaded"
    /\ cycle < MaxCycles
    /\ cycle' = cycle + 1
    /\ log' = Append(log, LoadedBanner)
    /\ task' = init_task
    /\ mm' = NONE
    /\ cr3' = NONE
    /\ ret' = <<>>
    /\ visited' = <<>>
    /\ calls' = <<>>
    /\ snapshot' = tasks
    /\ pc' = "for"
    /\ UNCHANGED <<hostvars, uaf>>

\* A loop that is guarded by a static "already dumped" flag: it runs in
\* the first activation only.
for_each_process_once ==
    /\ pc = "for"
    /\ \E n \in (IF cycle > 1 THEN {init_task} ELSE next_task(task)) :
        /\ task' = n
        /\ IF n = init_task
           THEN pc' = "return" /\ visited' = visited
           ELSE pc' = "read_mm" /\ visited' = Append(visited, n)
    /\ uaf' = (uaf \/ ~OnList(task))
    /\ UNCHANGED <<hostvars, log, mm, cr3, ret, cycle, calls, snapshot>>

\* Line 22: for_each_process(task): task = next_task(task), until it is
\* init_task again.
for_each_process ==
    /\ pc = "for"
    /\ \E n \in next_task(task) :
        /\ task' = n
        /\ IF n = init_task
           THEN pc' = "return" /\ visited' = visited
           ELSE pc' = "read_mm" /\ visited' = Append(visited, n)
    /\ uaf' = (uaf \/ ~OnList(task))
    /\ UNCHANGED <<hostvars, log, mm, cr3, ret, cycle, calls, snapshot>>

\* A read of task->mm that also clears it.
read_mm_steal ==
    /\ pc = "read_mm"
    /\ mm' = tasks[IndexOf(task)].mm
    /\ tasks' = [tasks EXCEPT ![IndexOf(task)].mm = NULL]
    /\ pc' = "fallback"
    /\ UNCHANGED <<mms, pgd, translation, freed_tasks, freed_mms, host_steps,
                   log, task, cr3, ret, cycle, visited, calls, snapshot, uaf>>

\* Line 23: struct mm_struct *mm = task->mm;
read_mm ==
    /\ pc = "read_mm"
    /\ \E m \in read_task_mm(task) : mm' = m
    /\ uaf' = (uaf \/ ~OnList(task))
    /\ pc' = "fallback"
    /\ UNCHANGED <<hostvars, log, task, cr3, ret, cycle, visited, calls,
                   snapshot>>

\* Resolution that takes active_mm whenever there is one.
fallback_prefers_active ==
    /\ pc = "fallback"
    /\ \E m \in read_task_active_mm(task) :
        mm' = IF m # NULL THEN m ELSE mm
    /\ pc' = "check"
    /\ UNCHANGED <<hostvars, log, task, cr3, ret, cycle, visited, calls,
                   snapshot, uaf>>

\* Lines 24-25: if (!mm) mm = task->active_mm;
fallback ==
    /\ pc = "fallback"
    /\ IF mm = NULL
       THEN /\ \E m \in read_task_active_mm(task) : mm' = m
            /\ uaf' = (uaf \/ ~OnList(task))
       ELSE UNCHANGED <<mm, uaf>>
    /\ pc' = "check"
    /\ UNCHANGED <<hostvars, log, task, cr3, ret, cycle, visited, calls,
                   snapshot>>

\* break in the place of continue.
check_mm_break ==
    /\ pc = "check"
    /\ IF mm = NULL
       THEN pc' = "return" /\ mm' = NONE /\ task' = init_task
       ELSE pc' = "translate" /\ mm' = mm /\ task' = task
    /\ UNCHANGED <<hostvars, log, cr3, ret, cycle, visited, calls,
                   snapshot, uaf>>

\* Lines 26-27: if (!mm) continue;
check_mm ==
    /\ pc = "check"
    /\ IF mm = NULL
       THEN pc' = "for" /\ mm' = NONE
       ELSE pc' = "translate" /\ mm' = mm
    /\ UNCHANGED <<hostvars, log, task, cr3, ret, cycle, visited, calls,
                   snapshot, uaf>>

\* The translation evaluated twice (once more for the printk argument).
translate_twice ==
    /\ pc = "translate"
    /\ \E v \in read_pgd(mm) :
        /\ cr3' = virt_to_phys(v)
        /\ calls' = calls \o <<[pid |-> task, mm |-> mm, arg |-> v],
                               [pid |-> task, mm |-> mm, arg |-> v]>>
    /\ uaf' = (uaf \/ mm \notin mms)
    /\ pc' = "printk"
    /\ UNCHANGED <<hostvars, log, task, mm, ret, cycle, visited, snapshot>>

\* Line 30: unsigned long cr3 = virt_to_phys(mm->pgd);
translate ==
    /\ pc = "translate"
    /\ \E v \in read_pgd(mm) :
        /\ cr3' = virt_to_phys(v)
        /\ calls' = Append(calls, [pid |-> task, mm |-> mm, arg |-> v])
    /\ uaf' = (uaf \/ mm \notin mms)
    /\ pc' = "printk"
    /\ UNCHANGED <<hostvars, log, task, mm, ret, cycle, visited, snapshot>>

\* A report followed by a break: the loop ends with the first line.
printk_report_break ==
    /\ pc = "printk"
    /\ \E p \in read_task_pid(task), c \in read_task_comm(task) :
        log' = Append(log, ReportLine(p, c, cr3))
    /\ uaf' = (uaf \/ ~OnList(task))
    /\ mm' = NONE
    /\ cr3' = NONE
    /\ task' = init_task
    /\ pc' = "return"
    /\ UNCHANGED <<hostvars, ret, cycle, visited, calls, snapshot>>

\* Lines 32-34: the report line is printed; the body's locals end with it.
printk_report ==
    /\ pc = "printk"
    /\ \E p \in read_task_pid(task), c \in read_task_comm(task) :
        log' = Append(log, ReportLine(p, c, cr3))
    /\ uaf' = (uaf \/ ~OnList(task))
    /\ mm' = NONE
    /\ cr3' = NONE
    /\ pc' = "for"
    /\ UNCHANGED <<hostvars, task, ret, cycle, visited, calls, snapshot>>

\* Line 36: return 0;
return_0 ==
    /\ pc = "return"
    /\ ret' = <<0>>
    /\ pc' = "loaded"
    /\ UNCHANGED <<hostvars, log, task, mm, cr3, cycle, visited, calls,
                   snapshot, uaf>>

(* ------------------------------------------------------- cr3_dump_exit *)

\* Lines 39-42: the module is unloaded; the banner is printed.
cr3_dump_exit ==
    /\ pc = "loaded"
    /\ log' = Append(log, UnloadedBanner)
    /\ pc' = "unloaded"
    /\ UNCHANGED <<hostvars, task, mm, cr3, ret, cycle, visited, calls,
                   snapshot, uaf>>

(* ------------------------------------------------------- specification *)

Next ==
    \/ printk_loaded
    \/ for_each_process
    \/ read_mm
    \/ fallback
    \/ check_mm
    \/ translate
    \/ printk_report
    \/ return_0
    \/ cr3_dump_exit

Spec == Init /\ [][Next]_vars

\* The steps of cr3_dump_init after its entry.  The init function runs
\* synchronously on the loading thread, which the host keeps running.
cr3_dump_init_step ==
    \/ for_each_process
    \/ read_mm
    \/ fallback
    \/ check_mm
    \/ translate
    \/ printk_report
    \/ return_0

FairSpec == Spec /\ WF_vars(cr3_dump_init_step)

(* ------------------------------------------------ the host, concurrently *)

\* cr3_dump_init takes no rcu_read_lock, no tasklist_lock and no task_lock
\* (lines 16-37), and for_each_process is a bare walk of the list: nothing
\* keeps the host from changing the list and the descriptors between two
\* of its steps.

\* The host creates a process at the tail of the list, on a descriptor in
\* use or on a new one.
host_fork ==
    /\ host_steps < MaxHostSteps
    /\ host_steps' = host_steps + 1
    /\ Len(tasks) < MaxTasks
    /\ \E p \in Pids \ ({tasks[i].pid : i \in DOMAIN tasks} \cup freed_tasks),
          d \in Descs \ freed_mms :
        /\ tasks' = Append(tasks, [pid |-> p, comm |-> CommOf(p), mm |-> d,
                                   active_mm |-> d])
        /\ mms' = mms \cup {d}
    /\ UNCHANGED <<pgd, translation, modvars, freed_tasks, freed_mms>>

\* A process gives up its address space; a descriptor nobody refers to
\* any more is destroyed.
host_exit_mm ==
    /\ host_steps < MaxHostSteps
    /\ host_steps' = host_steps + 1
    /\ \E i \in DOMAIN tasks :
        /\ Eligible(tasks[i])
        /\ tasks' = [tasks EXCEPT ![i].mm = NULL, ![i].active_mm = NULL]
    /\ mms' = Referenced(tasks') \ {NULL}
    /\ freed_mms' = freed_mms \cup (mms \ mms')
    /\ UNCHANGED <<pgd, translation, modvars, freed_tasks>>

\* The host takes a process off the list and destroys its task struct,
\* and the descriptors nobody refers to any more.
host_release_task ==
    /\ host_steps < MaxHostSteps
    /\ host_steps' = host_steps + 1
    /\ \E i \in DOMAIN tasks :
        /\ tasks' = [k \in 1 .. Len(tasks) - 1 |->
                         IF k < i THEN tasks[k] ELSE tasks[k + 1]]
        /\ freed_tasks' = freed_tasks \cup {tasks[i].pid}
        /\ freed_mms' = freed_mms \cup (mms \ Referenced(tasks'))
    /\ mms' = Referenced(tasks') \ {NULL}
    /\ UNCHANGED <<pgd, translation, modvars>>

NextConc ==
    \/ Next
    \/ host_fork
    \/ host_exit_mm
    \/ host_release_task

SpecConc == Init /\ [][NextConc]_vars

(* ---------------------------------------------- reading the log back *)

\* Positions of the activation banners in the log.
Loads == {k \in DOMAIN log : log[k].kind = "loaded"}

\* Position of the banner of the n-th activation.
LoadIdx(n) == CHOOSE k \in Loads : Cardinality({j \in Loads : j <= k}) = n

\* The report lines of the n-th activation, in the order printed.
IsReport(l) == l.kind = "report"
Reports(n) ==
    LET last == IF n < Cardinality(Loads) THEN LoadIdx(n + 1) - 1 ELSE Len(log)
    IN  SelectSeq(SubSeq(log, LoadIdx(n) + 1, last), IsReport)

\* The descriptor a process is to be reported with.
Resolved(t) == IF t.mm # NULL THEN t.mm ELSE t.active_mm

\* An activation has run to its end (the module is loaded, or was unloaded
\* again).
PassDone == cycle >= 1 /\ pc \in {"loaded", "unloaded"}

\* Report lines of activation n that carry pid p.
LinesOf(n, p) == {k \in DOMAIN Reports(n) : Reports(n)[k].pid = p}

(* --------------------------------------------------------------- claims *)

\* C1: after a pass over a table that did not change, every process with a
\* primary or fallback descriptor has exactly one report line, the line
\* carries that process's pid and comm, and the number of report lines is
\* the number of such processes.
C1_OneLinePerEligible ==
    PassDone =>
        /\ \A i \in DOMAIN tasks :
            Eligible(tasks[i]) =>
                /\ Cardinality(LinesOf(cycle, tasks[i].pid)) = 1
                /\ \A k \in LinesOf(cycle, tasks[i].pid) :
                    Reports(cycle)[k].comm = tasks[i].comm
        /\ Len(Reports(cycle)) =
               Cardinality({i \in DOMAIN tasks : Eligible(tasks[i])})

C1_Witness ==
    /\ pc = "loaded"
    /\ Len(tasks) = 2
    /\ \A i \in DOMAIN tasks : Eligible(tasks[i])
    /\ Len(Reports(cycle)) = 2

\* C2: a process without primary and without fallback descriptor gets no
\* report line and stops nothing: the pass returns 0 and the eligible
\* processes after it on the list are reported.
C2_AbsentIsSkipped ==
    PassDone =>
        \A i \in DOMAIN tasks :
            ~Eligible(tasks[i]) =>
                /\ LinesOf(cycle, tasks[i].pid) = {}
                /\ ret = <<0>>
                /\ \A j \in DOMAIN tasks :
                    (j > i /\ Eligible(tasks[j])) =>
                        LinesOf(cycle, tasks[j].pid) # {}

C2_Witness ==
    /\ pc = "loaded"
    /\ Len(tasks) = 2
    /\ ~Eligible(tasks[1])
    /\ Eligible(tasks[2])
    /\ LinesOf(cycle, tasks[2].pid) # {}

\* The shape of the log, and what one step may add to it.
C3_LogShape ==
    /\ Cardinality(Loads) = cycle
    /\ Cardinality({k \in DOMAIN log : log[k].kind = "unloaded"}) =
           IF pc = "unloaded" THEN cycle ELSE cycle - 1
    /\ \A k \in DOMAIN log :
        /\ log[k].kind = "report" =>
               /\ k > 1
               /\ log[k - 1].kind \in {"loaded", "report"}
        /\ log[k].kind = "loaded" =>
               (k = 1 \/ log[k - 1].kind = "unloaded")

C3_Step ==
    /\ (pc = "unloaded" /\ pc' # "unloaded") =>
           log' = Append(log, LoadedBanner)
    /\ (pc = "loaded" /\ pc' # "loaded") =>
           log' = Append(log, UnloadedBanner)
    /\ (pc \notin {"unloaded", "loaded"}) =>
           \/ log' = log
           \/ \E l \in Range(log') : IsReport(l) /\ log' = Append(log, l)

\* C3: every activation prints exactly one activation banner, before any
\* of its report lines; a deactivation prints exactly one deactivation
\* banner and nothing else.
C3_Banners == []C3_LogShape /\ [][C3_Step]_vars

C3_Witness ==
    /\ pc = "unloaded"
    /\ cycle = 1
    /\ Len(log) = 4
    /\ log[1] = LoadedBanner
    /\ log[4] = UnloadedBanner

\* C4: report lines appear in the order of the host's list: a line of a
\* process that is earlier on the list is printed earlier.
C4_ListOrder ==
    cycle >= 1 =>
        \A k1, k2 \in DOMAIN Reports(cycle) :
            k1 < k2 =>
                IndexOf(Reports(cycle)[k1].pid) < IndexOf(Reports(cycle)[k2].pid)

\* The list order differs from the pid order, and both were reported.
C4_Witness ==
    /\ pc = "loaded"
    /\ Len(tasks) = 2
    /\ tasks[1].pid > tasks[2].pid
    /\ Len(Reports(cycle)) = 2
    /\ Reports(cycle)[1].pid = tasks[1].pid

\* C5: over an unchanged table, the passes of two activations with a
\* deactivation between them print the same set of report lines.
C5_SamePasses ==
    (PassDone /\ cycle >= 2) =>
        Range(Reports(cycle)) = Range(Reports(cycle - 1))

C5_Witness ==
    /\ pc = "loaded"
    /\ cycle = 2
    /\ Len(Reports(1)) = 2
    /\ Len(Reports(2)) = 2

\* C8: the address of a report line is the translation of the pgd of the
\* primary descriptor when the process has one, also when it has another
\* fallback descriptor, and of the fallback descriptor only otherwise.
C8_PrimaryPreferred ==
    \A k \in DOMAIN log :
        IsReport(log[k]) =>
            log[k].cr3 = translation[pgd[Resolved(tasks[IndexOf(log[k].pid)])]]

C8_Witness ==
    \E k \in DOMAIN log :
        /\ IsReport(log[k])
        /\ LET t == tasks[IndexOf(log[k].pid)]
           IN  /\ t.mm # NULL
               /\ t.active_mm # NULL
               /\ t.active_mm # t.mm
               /\ log[k].cr3 = translation[pgd[t.mm]]
               /\ log[k].cr3 # translation[pgd[t.active_mm]]

\* What a step leaves alone, and what the module holds after it.
C9_Step ==
    /\ tasks' = tasks
    /\ mms' = mms
    /\ pgd' = pgd
    /\ translation' = translation
    /\ pc' \in {"for", "return", "loaded", "unloaded"} =>
           (mm' = NONE /\ cr3' = NONE)
    /\ pc' \in {"return", "loaded", "unloaded"} => task' = init_task

\* C9: no step of the module changes the process list, a process's pid,
\* comm, mm or active_mm, a descriptor's pgd or the host's mapping; and
\* between iterations and after the pass the module holds no descriptor,
\* no address and no process.
C9_Frame == [][C9_Step]_vars

C9_Witness ==
    /\ pc = "unloaded"
    /\ cycle = 1
    /\ Len(tasks) = 2
    /\ Len(log) = 4
    /\ mm = NONE
    /\ cr3 = NONE

\* C10: virt_to_phys is called on the pgd of a descriptor that is present,
\* at most once for a process visited and exactly once for a process that
\* is reported; it is not called for a process with neither descriptor.
C10_TranslationCalls ==
    cycle >= 1 =>
        /\ \A k \in DOMAIN calls :
            /\ calls[k].mm \in mms
            /\ calls[k].arg = pgd[calls[k].mm]
            /\ Eligible(tasks[IndexOf(calls[k].pid)])
        /\ \A p \in Range(visited) :
            Cardinality({k \in DOMAIN calls : calls[k].pid = p}) <= 1
        /\ \A k \in DOMAIN Reports(cycle) :
            Cardinality({c \in DOMAIN calls :
                            calls[c].pid = Reports(cycle)[k].pid}) = 1
        /\ Len(calls) = Len(Reports(cycle)) + (IF pc = "printk" THEN 1 ELSE 0)

\* A pass that visited a process with neither descriptor and one that it
\* reported: one call in all.
C10_Witness ==
    /\ pc = "loaded"
    /\ Len(tasks) = 2
    /\ \E i \in DOMAIN tasks : ~Eligible(tasks[i])
    /\ Len(calls) = 1
    /\ Len(Reports(cycle)) = 1

\* C6: with the host creating and destroying processes and descriptors
\* while the pass runs, and the module taking no guard of its own: no task
\* struct and no descriptor is read after the host destroyed it, no
\* process is visited twice, and a process that was on the list, with a
\* descriptor, for the whole pass is reported exactly once.
C6_SafeWithoutGuard ==
    /\ ~uaf
    /\ \A p \in Pids :
        Cardinality({k \in DOMAIN visited : visited[k] = p}) <= 1
    /\ (pc = "loaded") =>
           \A i \in DOMAIN tasks :
               (Eligible(tasks[i]) /\ tasks[i] \in Range(snapshot)) =>
                   Cardinality(LinesOf(cycle, tasks[i].pid)) = 1

\* The state at the return of cr3_dump_init, and the steps after it.
C7_AtReturn ==
    /\ pc = "loaded" =>
           /\ ret = <<0>>
           /\ visited = [i \in DOMAIN tasks |-> tasks[i].pid]
    /\ ret = <<0>> => pc \in {"loaded", "unloaded"}

C7_AfterReturn ==
    pc = "loaded" => log' \in {log, Append(log, UnloadedBanner)}

\* C7: over a finite table the pass ends: it has then entered the loop
\* body once for each process of the list, in list order, and returned 0;
\* 0 is returned at the end only, and no report line follows it.
C7_Terminates ==
    /\ []C7_AtReturn
    /\ [][C7_AfterReturn]_vars
    /\ (pc = "for") ~> (pc = "loaded")

C7_Witness ==
    /\ pc = "loaded"
    /\ ret = <<0>>
    /\ Len(visited) = 2
    /\ Len(tasks) = 2
    /\ \E i \in DOMAIN tasks : ~Eligible(tasks[i])

====
